---- MODULE Spec2Model ----
(***************************************************************************)
(* A model of las::file::File (src/src/file.rs): the in-memory las file,   *)
(* its constructors (new, read_from), its mutators (set_header, add_point) *)
(* and write_to / write_point_to, one step per call on the writer.         *)
(*                                                                         *)
(* Abstractions.  An f64 is an integer; f64::MAX and f64::MIN are the      *)
(* largest and smallest of them and the infinities lie beyond.  The inputs *)
(* are even integers, so that (min + max) / 2.0 is exact.  The IEEE bit    *)
(* pattern of a gps_time is a natural number below 2^16, written as eight  *)
(* little-endian bytes.  The bytes of the header and of a vlr are not      *)
(* modelled: the stream records their number, and the header value they    *)
(* encode.  A failing writer fails a whole call (no partial write).        *)
(* header.rs, point.rs, reader.rs, scale.rs, vlr.rs and io.rs are not part *)
(* of the sources modelled here; what file.rs needs of them follows their  *)
(* description in the specification.                                       *)
(***************************************************************************)
EXTENDS Integers, Sequences, FiniteSets

VARIABLES
    file,                        \* the File: [header, vlrs, points]
    pristine,                    \* file is exactly what read_from returned
    pc,                          \* position inside write_to ("idle" outside)
    auto_offsets,                \* write_to's parameter
    number_of_points_by_return,  \* write_to's local tally
    bytes_written,               \* write_to's local counter
    vi,                          \* index of the next vlr to write
    pi,                          \* index of the point being written
    fi,                          \* index in FieldOrder of the next field
    out,                         \* the writer: [header, chunks]
    result,                      \* what write_to returned
    file2                        \* read_from on the bytes written

vars == <<file, pristine, pc, auto_offsets, number_of_points_by_return,
          bytes_written, vi, pi, fi, out, result, file2>>

\* ------------------------------------------------------------------ bounds

\* At most this many points in a File.
MaxPoints == 2

\* --------------------------------------------------------------- Option<T>

None == <<>>
Some(v) == <<v>>
IsSome(o) == o # <<>>
Unwrap(o) == o[1]

\* ---------------------------------------------------------------- numbers

\* f64::MAX and f64::MIN, the initial values of the running minima and maxima.
F64_MAX == 1000
F64_MIN == -F64_MAX
PosInfinity == F64_MAX + 2
NegInfinity == F64_MIN - 2

\* f64::round: half away from zero (d > 0).
RoundDiv(n, d) ==
    IF n >= 0 THEN (2 * n + d) \div (2 * d) ELSE -((2 * (-n) + d) \div (2 * d))

\* scale::descale: round((value - offset) / scale_factor) as i32.
descale(value, scale_factor, offset) == RoundDiv(value - offset, scale_factor)

\* scale::scale: raw * scale_factor + offset.
scale(raw, scale_factor, offset) == raw * scale_factor + offset

\* byteorder: the little-endian bytes of an i32 (two's complement).
I32LE(v) ==
    LET lo == IF v >= 0 THEN v ELSE (v + 2147483647) + 1
        top == IF v >= 0 THEN v \div 16777216 ELSE (lo \div 16777216) + 128
    IN  <<lo % 256, (lo \div 256) % 256, (lo \div 65536) % 256, top>>

FromI32LE(b) ==
    LET u == b[1] + 256 * b[2] + 65536 * b[3] + 16777216 * (b[4] % 128)
    IN  IF b[4] >= 128 THEN (u - 2147483647) - 1 ELSE u

U16LE(v) == <<v % 256, (v \div 256) % 256>>
FromU16LE(b) == b[1] + 256 * b[2]
U8(v) == <<v % 256>>
I8(v) == <<(v + 256) % 256>>
FromI8(b) == IF b >= 128 THEN b - 256 ELSE b
F64LE(t) == <<t % 256, (t \div 256) % 256, 0, 0, 0, 0, 0, 0>>
FromF64LE(b) == b[1] + 256 * b[2]

Bit(b) == IF b THEN 1 ELSE 0

RECURSIVE Zeros(_)
Zeros(n) == IF n <= 0 THEN <<>> ELSE <<0>> \o Zeros(n - 1)

\* ------------------------------------------------------------------ header

\* PointDataFormat::has_time, has_color, record_length.
has_time(format) == format \in {1, 3}
has_color(format) == format \in {2, 3}
record_length(format) ==
    20 + (IF has_time(format) THEN 8 ELSE 0) + (IF has_color(format) THEN 6 ELSE 0)

\* Header::calculate_size: the size the header's version declares.
HeaderSize == 227

\* Header::new.
NewHeader ==
    [header_size |-> 0, offset_to_point_data |-> 0, point_data_format |-> 0,
     point_data_record_length |-> 0, number_of_point_records |-> 0,
     number_of_points_by_return |-> <<0, 0, 0, 0, 0>>,
     x_scale_factor |-> 1, y_scale_factor |-> 1, z_scale_factor |-> 1,
     x_offset |-> 0, y_offset |-> 0, z_offset |-> 0,
     x_min |-> 0, y_min |-> 0, z_min |-> 0,
     x_max |-> 0, y_max |-> 0, z_max |-> 0]

\* Header::write_to: the bytes it writes are at most the declared size.
HeaderWritten(h) == {h.header_size - 2, h.header_size}

\* ------------------------------------------------------------------- point

\* Point::new.
NewPoint ==
    [x |-> 0, y |-> 0, z |-> 0, intensity |-> 0,
     return_number |-> 0, number_of_returns |-> 0, scan_direction |-> 0,
     edge_of_flight_line |-> FALSE, classification |-> 0,
     synthetic |-> FALSE, key_point |-> FALSE, withheld |-> FALSE,
     scan_angle_rank |-> 0, user_data |-> 0, point_source_id |-> 0,
     gps_time |-> None, red |-> None, green |-> None, blue |-> None,
     extra_bytes |-> None]

\* File::new.
NewFile == [header |-> NewHeader, vlrs |-> <<>>, points |-> <<>>]

\* ------------------------------------------------- write_to: derived fields

\* The sum of the vlrs' len(), the fold of write_to.
RECURSIVE VlrsLen(_)
VlrsLen(vlrs) == IF vlrs = <<>> THEN 0 ELSE Head(vlrs).len + VlrsLen(Tail(vlrs))

\* A plausible slip: the vlrs are left out of the offset.
offset_without_vlrs(header_size, vlrs) == header_size

\* header.offset_to_point_data as write_to sets it.
offset_to_point_data(header_size, vlrs) == header_size + VlrsLen(vlrs)

\* A plausible slip: the running minimum starts at infinity.
RunningMinInfinity == PosInfinity

\* The running minima start at f64::MAX, the maxima at f64::MIN.
RunningMinInit == F64_MAX
RunningMaxInit == F64_MIN

\* The locals of write_to before its loop over the points.
StatsInit ==
    [tally |-> <<0, 0, 0, 0, 0>>, panicked |-> FALSE,
     x_min |-> RunningMinInit, y_min |-> RunningMinInit, z_min |-> RunningMinInit,
     x_max |-> RunningMaxInit, y_max |-> RunningMaxInit, z_max |-> RunningMaxInit]

\* One turn of the loop. number_of_points_by_return is a [u32; 5]: indexing it
\* at return_number - 1 >= 5 panics.
StatsStep(acc, point) ==
    LET return_number == point.return_number IN
    IF acc.panicked THEN acc
    ELSE IF return_number > 0 /\ return_number - 1 >= Len(acc.tally)
    THEN [acc EXCEPT !.panicked = TRUE]
    ELSE [tally |-> IF return_number > 0
                    THEN [acc.tally EXCEPT ![return_number] = @ + 1]
                    ELSE acc.tally,
          panicked |-> FALSE,
          x_min |-> IF point.x < acc.x_min THEN point.x ELSE acc.x_min,
          y_min |-> IF point.y < acc.y_min THEN point.y ELSE acc.y_min,
          z_min |-> IF point.z < acc.z_min THEN point.z ELSE acc.z_min,
          x_max |-> IF point.x > acc.x_max THEN point.x ELSE acc.x_max,
          y_max |-> IF point.y > acc.y_max THEN point.y ELSE acc.y_max,
          z_max |-> IF point.z > acc.z_max THEN point.z ELSE acc.z_max]

RECURSIVE Stats(_, _)
Stats(points, acc) ==
    IF points = <<>> THEN acc ELSE Stats(Tail(points), StatsStep(acc, Head(points)))

\* A plausible slip: the offsets are recomputed whatever the flag says.
AutoOffsetAlways(auto, offset, min, max) == (min + max) \div 2

\* if auto_offsets { offset = (min + max) / 2.0 }
AutoOffset(auto, offset, min, max) == IF auto THEN (min + max) \div 2 ELSE offset

\* ----------------------------------------------------------- write_point_to

\* A plausible slip: number_of_returns shifted by four bits.
ReturnByteShift4(point) ==
    (point.return_number + ((point.number_of_returns * 16) % 256)
       + ((point.scan_direction * 64) % 256)
       + ((Bit(point.edge_of_flight_line) * 128) % 256)) % 256

\* The return-info byte (u8 arithmetic).
ReturnByte(point) ==
    (point.return_number + ((point.number_of_returns * 8) % 256)
       + ((point.scan_direction * 64) % 256)
       + ((Bit(point.edge_of_flight_line) * 128) % 256)) % 256

\* The classification byte (u8 arithmetic).
ClassificationByte(point) ==
    (point.classification + ((Bit(point.synthetic) * 32) % 256)
       + ((Bit(point.key_point) * 64) % 256)
       + ((Bit(point.withheld) * 128) % 256)) % 256

\* The writes of write_point_to, in its order.
FieldOrder ==
    <<"x", "y", "z", "intensity", "return_byte", "classification_byte",
      "scan_angle_rank", "user_data", "point_source_id",
      "gps_time", "red", "green", "blue", "extra_bytes">>

\* A plausible slip: a gps_time or color that is present is written whatever
\* the format says.
AppliesWhenPresent(header, point, field) ==
    CASE field = "gps_time" ->
             has_time(header.point_data_format) \/ IsSome(point.gps_time)
      [] field \in {"red", "green", "blue"} ->
             has_color(header.point_data_format) \/ IsSome(point[field])
      [] field = "extra_bytes" -> IsSome(point.extra_bytes)
      [] OTHER -> TRUE

\* Whether write_point_to reaches the write of this field: the guards
\* has_time(), has_color() and the match on extra_bytes.
Applies(header, point, field) ==
    CASE field = "gps_time" -> has_time(header.point_data_format)
      [] field \in {"red", "green", "blue"} -> has_color(header.point_data_format)
      [] field = "extra_bytes" -> IsSome(point.extra_bytes)
      [] OTHER -> TRUE

\* A plausible slip: a missing field is written as a default.
MissingNever(point, field) == FALSE

\* The None arms: the field the format asks for is absent.
Missing(point, field) ==
    field \in {"gps_time", "red", "green", "blue"} /\ ~IsSome(point[field])

OrZero(o) == IF IsSome(o) THEN Unwrap(o) ELSE 0

\* The bytes one write of write_point_to hands to the writer.
FieldBytes(header, point, field) ==
    CASE field = "x" ->
             I32LE(descale(point.x, header.x_scale_factor, header.x_offset))
      [] field = "y" ->
             I32LE(descale(point.y, header.y_scale_factor, header.y_offset))
      [] field = "z" ->
             I32LE(descale(point.z, header.z_scale_factor, header.z_offset))
      [] field = "intensity" -> U16LE(point.intensity)
      [] field = "return_byte" -> U8(ReturnByte(point))
      [] field = "classification_byte" -> U8(ClassificationByte(point))
      [] field = "scan_angle_rank" -> I8(point.scan_angle_rank)
      [] field = "user_data" -> U8(point.user_data)
      [] field = "point_source_id" -> U16LE(point.point_source_id)
      [] field = "gps_time" -> F64LE(OrZero(point.gps_time))
      [] field = "red" -> U16LE(OrZero(point.red))
      [] field = "green" -> U16LE(OrZero(point.green))
      [] field = "blue" -> U16LE(OrZero(point.blue))
      [] field = "extra_bytes" -> Unwrap(point.extra_bytes)

\* The index in FieldOrder of the first write at or after `from`
\* (Len(FieldOrder) + 1: write_point_to returns Ok).
RECURSIVE NextField(_, _, _)
NextField(header, point, from) ==
    IF from > Len(FieldOrder) \/ Applies(header, point, FieldOrder[from])
    THEN from
    ELSE NextField(header, point, from + 1)

\* ------------------------------------------------------------------ stream

\* One call on the writer: what it wrote (a field of point idx, a vlr, the
\* header, zeros), how many bytes, and the bytes when the model has them.
Chunk(kind, idx, len, bytes) == [kind |-> kind, idx |-> idx, len |-> len, bytes |-> bytes]

NoStream == [header |-> None, chunks |-> <<>>]

ChunkBytes(c) == IF Len(c.bytes) = c.len THEN c.bytes ELSE Zeros(c.len)

\* The bytes of the stream from byte offset `from` on; `pos` is the offset of
\* the first chunk.
RECURSIVE BytesFrom(_, _, _)
BytesFrom(chunks, pos, from) ==
    IF chunks = <<>> THEN <<>>
    ELSE LET c == Head(chunks) IN
         IF pos + c.len <= from
         THEN BytesFrom(Tail(chunks), pos + c.len, from)
         ELSE LET b == ChunkBytes(c) IN
              (IF from > pos THEN SubSeq(b, from - pos + 1, c.len) ELSE b)
                  \o BytesFrom(Tail(chunks), pos + c.len, from)

\* ------------------------------------------------------------------ reader

\* The sub-byte fields of the return-info byte and of the classification byte.
DecodeReturnNumber(b) == b % 8
DecodeNumberOfReturns(b) == (b \div 8) % 8
DecodeScanDirection(b) == (b \div 64) % 2
DecodeEdgeOfFlightLine(b) == (b \div 128) % 2 = 1
DecodeClassification(b) == b % 32
DecodeSynthetic(b) == (b \div 32) % 2 = 1
DecodeKeyPoint(b) == (b \div 64) % 2 = 1
DecodeWithheld(b) == (b \div 128) % 2 = 1

\* Reader::next_point on one record of header.point_data_record_length bytes.
DecodePoint(rec, header) ==
    LET format == header.point_data_format
        t == IF has_time(format) THEN 8 ELSE 0
        c == IF has_color(format) THEN 6 ELSE 0
    IN  [x |-> scale(FromI32LE(SubSeq(rec, 1, 4)),
                     header.x_scale_factor, header.x_offset),
         y |-> scale(FromI32LE(SubSeq(rec, 5, 8)),
                     header.y_scale_factor, header.y_offset),
         z |-> scale(FromI32LE(SubSeq(rec, 9, 12)),
                     header.z_scale_factor, header.z_offset),
         intensity |-> FromU16LE(SubSeq(rec, 13, 14)),
         return_number |-> DecodeReturnNumber(rec[15]),
         number_of_returns |-> DecodeNumberOfReturns(rec[15]),
         scan_direction |-> DecodeScanDirection(rec[15]),
         edge_of_flight_line |-> DecodeEdgeOfFlightLine(rec[15]),
         classification |-> DecodeClassification(rec[16]),
         synthetic |-> DecodeSynthetic(rec[16]),
         key_point |-> DecodeKeyPoint(rec[16]),
         withheld |-> DecodeWithheld(rec[16]),
         scan_angle_rank |-> FromI8(rec[17]),
         user_data |-> rec[18],
         point_source_id |-> FromU16LE(SubSeq(rec, 19, 20)),
         gps_time |-> IF has_time(format)
                      THEN Some(FromF64LE(SubSeq(rec, 21, 28))) ELSE None,
         red |-> IF has_color(format)
                 THEN Some(FromU16LE(SubSeq(rec, 21 + t, 22 + t))) ELSE None,
         green |-> IF has_color(format)
                   THEN Some(FromU16LE(SubSeq(rec, 23 + t, 24 + t))) ELSE None,
         blue |-> IF has_color(format)
                  THEN Some(FromU16LE(SubSeq(rec, 25 + t, 26 + t))) ELSE None,
         extra_bytes |-> Some(SubSeq(rec, 21 + t + c, Len(rec)))]

\* The first n records of `length` bytes each.
RECURSIVE DecodePoints(_, _, _)
DecodePoints(bytes, header, n) ==
    IF n = 0 THEN <<>>
    ELSE LET length == header.point_data_record_length IN
         <<DecodePoint(SubSeq(bytes, 1, length), header)>>
             \o DecodePoints(SubSeq(bytes, length + 1, Len(bytes)), header, n - 1)

\* Reader::vlrs: the vlrs of the stream, in its order.
RECURSIVE VlrsOf(_)
VlrsOf(chunks) ==
    IF chunks = <<>> THEN <<>>
    ELSE (IF Head(chunks).kind = "vlr"
          THEN <<[id |-> Head(chunks).idx, len |-> Head(chunks).len]>>
          ELSE <<>>) \o VlrsOf(Tail(chunks))

\* File::read_from: the header and the vlrs of the stream as they are, and
\* number_of_point_records points from offset_to_point_data on; None is a
\* read error (the stream ends early).
read_from(stream) ==
    LET header == Unwrap(stream.header)
        bytes == BytesFrom(stream.chunks, 0, header.offset_to_point_data)
        n == header.number_of_point_records
    IN  IF header.point_data_record_length < record_length(header.point_data_format)
           \/ Len(bytes) < n * header.point_data_record_length
        THEN None
        ELSE Some([header |-> header,
                   vlrs |-> VlrsOf(stream.chunks),
                   points |-> DecodePoints(bytes, header, n)])

\* ------------------------------------------------------------------ inputs

\* The points add_point is called with.
P_full ==
    [NewPoint EXCEPT !.x = 2, !.y = 4, !.z = -2, !.intensity = 300,
                     !.return_number = 5, !.number_of_returns = 5,
                     !.scan_direction = 1, !.edge_of_flight_line = TRUE,
                     !.classification = 2, !.key_point = TRUE,
                     !.scan_angle_rank = -3, !.user_data = 7,
                     !.point_source_id = 258, !.gps_time = Some(513),
                     !.red = Some(1), !.green = Some(2), !.blue = Some(300)]
P_return6 == [P_full EXCEPT !.x = 6, !.return_number = 6, !.number_of_returns = 7]
P_nogreen == [P_full EXCEPT !.x = -4, !.y = 0, !.z = 6, !.return_number = 1,
                            !.green = None]
P_extra == [NewPoint EXCEPT !.x = 4, !.y = -6, !.return_number = 2,
                            !.red = Some(4), !.green = Some(5), !.blue = Some(6),
                            !.extra_bytes = Some(<<9>>)]
P_time == [NewPoint EXCEPT !.x = -2, !.z = 8, !.return_number = 1,
                           !.number_of_returns = 1, !.gps_time = Some(7)]

SamplePoints == {NewPoint, P_full, P_return6, P_nogreen, P_extra, P_time}

\* The headers set_header is called with.
HeaderOfFormat(format) == [NewHeader EXCEPT !.point_data_format = format]
H_scaled ==
    [NewHeader EXCEPT !.point_data_format = 3, !.header_size = 100,
                      !.offset_to_point_data = 5,
                      !.x_scale_factor = 2, !.x_offset = 2, !.z_offset = -2,
                      !.number_of_points_by_return = <<1, 0, 0, 0, 2>>]

SampleHeaders == {HeaderOfFormat(f) : f \in 0 .. 3} \cup {H_scaled}

V_a == [id |-> 1, len |-> 56]
V_b == [id |-> 2, len |-> 60]

\* One valid record: the fields of the format, then the extra bytes.
RECURSIVE RecordBytes(_, _, _)
RecordBytes(header, point, from) ==
    IF from > Len(FieldOrder) THEN <<>>
    ELSE (IF Applies(header, point, FieldOrder[from])
          THEN FieldBytes(header, point, FieldOrder[from]) ELSE <<>>)
             \o RecordBytes(header, point, from + 1)

RECURSIVE RecordChunks(_, _, _)
RecordChunks(header, points, k) ==
    IF k > Len(points) THEN <<>>
    ELSE LET b == RecordBytes(header, points[k], 1) IN
         <<Chunk("record", k, Len(b), b)>> \o RecordChunks(header, points, k + 1)

RECURSIVE VlrChunks(_)
VlrChunks(vlrs) ==
    IF vlrs = <<>> THEN <<>>
    ELSE <<Chunk("vlr", Head(vlrs).id, Head(vlrs).len, <<>>)>> \o VlrChunks(Tail(vlrs))

\* A valid stream: a header that declares what follows, the vlrs, `gap`
\* bytes before the point data, and one record per point with `extra`
\* trailing bytes each.
StreamOf(h, vlrs, gap, extra, points) ==
    LET header ==
            [h EXCEPT !.header_size = HeaderSize,
                      !.offset_to_point_data = HeaderSize + VlrsLen(vlrs) + gap,
                      !.point_data_record_length =
                          record_length(h.point_data_format) + Len(extra),
                      !.number_of_point_records = Len(points)]
        pts == [k \in 1 .. Len(points) |->
                   [points[k] EXCEPT !.extra_bytes = Some(extra)]]
    IN  [header |-> Some(header),
         chunks |-> <<Chunk("header", 0, HeaderSize, <<>>)>> \o VlrChunks(vlrs)
                       \o <<Chunk("zeros", 0, gap, <<>>)>>
                       \o RecordChunks(header, pts, 1)]

\* The streams read_from is called with.
ValidStreams ==
    {StreamOf(HeaderOfFormat(0), <<>>, 0, <<>>, <<[NewPoint EXCEPT !.x = 2, !.return_number = 1]>>),
     StreamOf([HeaderOfFormat(1) EXCEPT !.y_scale_factor = 2, !.y_offset = 2],
              <<V_a>>, 2, <<>>, <<P_time, [P_time EXCEPT !.y = 6, !.return_number = 5]>>),
     StreamOf(H_scaled, <<V_a, V_b>>, 0, <<>>, <<P_full>>),
     StreamOf(HeaderOfFormat(0), <<V_b>>, 0, <<9>>, <<[NewPoint EXCEPT !.z = 4, !.return_number = 3]>>),
     StreamOf(HeaderOfFormat(2), <<V_b>>, 0, <<>>,
              <<[P_extra EXCEPT !.return_number = 7, !.number_of_returns = 7]>>)}

\* ----------------------------------------------------------------- results

NoResult == [kind |-> "none", format |-> 0, field |-> ""]
Ok == [kind |-> "Ok", format |-> 0, field |-> ""]
IoError == [kind |-> "Io", format |-> 0, field |-> ""]
Panic == [kind |-> "panic", format |-> 0, field |-> ""]
\* Error::PointFormat(self.header.point_data_format, name)
PointFormat(format, field) == [kind |-> "PointFormat", format |-> format, field |-> field]

ErrorKinds == {"Io", "PointFormat"}

\* A plausible slip: the error is recorded and the write goes on.
OnErrorContinue(at) == at

\* try! and return Err: write_to returns at once.
OnError(at) == "done"

Fail(err) ==
    /\ result' = err
    /\ pc' = OnError(pc)
    /\ UNCHANGED <<file, pristine, auto_offsets, number_of_points_by_return,
                   bytes_written, vi, pi, fi, out, file2>>

Emit(chunk) == out' = [out EXCEPT !.chunks = Append(@, chunk)]

\* ----------------------------------------------------------------- actions

\* File::new(), or File::read_from on a valid stream.
Init ==
    /\ \/ file = NewFile /\ pristine = FALSE
       \/ \E s \in ValidStreams : file = Unwrap(read_from(s)) /\ pristine = TRUE
    /\ pc = "idle"
    /\ auto_offsets = FALSE
    /\ number_of_points_by_return = <<0, 0, 0, 0, 0>>
    /\ bytes_written = 0
    /\ vi = 1
    /\ pi = 1
    /\ fi = 1
    /\ out = NoStream
    /\ result = NoResult
    /\ file2 = None

set_header(header) ==
    /\ pc = "idle"
    /\ file' = [file EXCEPT !.header = header]
    /\ pristine' = FALSE
    /\ UNCHANGED <<pc, auto_offsets, number_of_points_by_return, bytes_written,
                   vi, pi, fi, out, result, file2>>

add_point(point) ==
    /\ pc = "idle"
    /\ Len(file.points) < MaxPoints
    /\ file' = [file EXCEPT !.points = Append(@, point)]
    /\ pristine' = FALSE
    /\ UNCHANGED <<pc, auto_offsets, number_of_points_by_return, bytes_written,
                   vi, pi, fi, out, result, file2>>

\* write_to up to its first write: the derived fields of the header.
write_to(auto) ==
    /\ pc = "idle"
    /\ LET h == file.header
           h1 == [h EXCEPT
                    !.header_size = HeaderSize,
                    !.number_of_point_records = Len(file.points),
                    !.offset_to_point_data =
                        offset_to_point_data(HeaderSize, file.vlrs),
                    !.point_data_record_length =
                        record_length(h.point_data_format)]
           st == Stats(file.points, StatsInit)
           h2 == [h1 EXCEPT
                    !.x_min = st.x_min, !.y_min = st.y_min, !.z_min = st.z_min,
                    !.x_max = st.x_max, !.y_max = st.y_max, !.z_max = st.z_max,
                    !.x_offset = AutoOffset(auto, @, st.x_min, st.x_max),
                    !.y_offset = AutoOffset(auto, @, st.y_min, st.y_max),
                    !.z_offset = AutoOffset(auto, @, st.z_min, st.z_max)]
       IN  /\ number_of_points_by_return' = st.tally
           /\ IF st.panicked
              THEN /\ file' = [file EXCEPT !.header = h1]
                   /\ result' = Panic
                   /\ pc' = "done"
              ELSE /\ file' = [file EXCEPT !.header = h2]
                   /\ result' = result
                   /\ pc' = "header"
    /\ auto_offsets' = auto
    /\ UNCHANGED <<pristine, bytes_written, vi, pi, fi, out, file2>>

\* bytes_written = try!(self.header.write_to(writer))
write_header ==
    /\ pc = "header"
    /\ \E n \in HeaderWritten(file.header), io_ok \in BOOLEAN :
          IF io_ok
          THEN /\ out' = [header |-> Some(file.header),
                          chunks |-> Append(out.chunks, Chunk("header", 0, n, <<>>))]
               /\ bytes_written' = n
               /\ pc' = "header_pad"
               /\ UNCHANGED <<file, pristine, auto_offsets,
                              number_of_points_by_return, vi, pi, fi, result, file2>>
          ELSE Fail(IoError)

\* The zeros up to header_size.
write_header_pad ==
    /\ pc = "header_pad"
    /\ IF bytes_written < file.header.header_size
       THEN \E io_ok \in BOOLEAN :
               IF io_ok
               THEN /\ Emit(Chunk("zeros", 0,
                                  file.header.header_size - bytes_written, <<>>))
                    /\ bytes_written' = file.header.header_size
                    /\ pc' = "vlrs"
                    /\ UNCHANGED <<file, pristine, auto_offsets,
                                   number_of_points_by_return, vi, pi, fi,
                                   result, file2>>
               ELSE Fail(IoError)
       ELSE /\ pc' = "vlrs"
            /\ UNCHANGED <<file, pristine, auto_offsets,
                           number_of_points_by_return, bytes_written, vi, pi, fi,
                           out, result, file2>>

\* bytes_written += try!(vlr.write_to(writer)), one vlr.
write_vlr ==
    /\ pc = "vlrs"
    /\ vi <= Len(file.vlrs)
    /\ \E io_ok \in BOOLEAN :
          IF io_ok
          THEN /\ Emit(Chunk("vlr", file.vlrs[vi].id, file.vlrs[vi].len, <<>>))
               /\ bytes_written' = bytes_written + file.vlrs[vi].len
               /\ vi' = vi + 1
               /\ UNCHANGED <<file, pristine, pc, auto_offsets,
                              number_of_points_by_return, pi, fi, result, file2>>
          ELSE Fail(IoError)

\* The zeros up to offset_to_point_data, after the last vlr.
write_point_pad ==
    /\ pc = "vlrs"
    /\ vi > Len(file.vlrs)
    /\ IF bytes_written < file.header.offset_to_point_data
       THEN \E io_ok \in BOOLEAN :
               IF io_ok
               THEN /\ Emit(Chunk("zeros", 0,
                                  file.header.offset_to_point_data - bytes_written,
                                  <<>>))
                    /\ pc' = "points"
                    /\ UNCHANGED <<file, pristine, auto_offsets,
                                   number_of_points_by_return, bytes_written,
                                   vi, pi, fi, result, file2>>
               ELSE Fail(IoError)
       ELSE /\ pc' = "points"
            /\ UNCHANGED <<file, pristine, auto_offsets,
                           number_of_points_by_return, bytes_written, vi, pi, fi,
                           out, result, file2>>

\* One write of write_point_to on point pi, or one of its None arms.
write_point_to ==
    /\ pc = "points"
    /\ pi <= Len(file.points)
    /\ LET point == file.points[pi]
           field == FieldOrder[fi]
           bytes == FieldBytes(file.header, point, field)
           next == NextField(file.header, point, fi + 1)
       IN  IF Missing(point, field)
           THEN Fail(PointFormat(file.header.point_data_format, field))
           ELSE \E io_ok \in BOOLEAN :
                   IF io_ok
                   THEN /\ Emit(Chunk(field, pi, Len(bytes), bytes))
                        /\ IF next > Len(FieldOrder)
                           THEN pi' = pi + 1 /\ fi' = 1
                           ELSE pi' = pi /\ fi' = next
                        /\ UNCHANGED <<file, pristine, pc, auto_offsets,
                                       number_of_points_by_return, bytes_written,
                                       vi, result, file2>>
                   ELSE Fail(IoError)

\* Ok(()) after the last point.
write_to_return ==
    /\ pc = "points"
    /\ pi > Len(file.points)
    /\ result' = Ok
    /\ pc' = "done"
    /\ UNCHANGED <<file, pristine, auto_offsets, number_of_points_by_return,
                   bytes_written, vi, pi, fi, out, file2>>

\* File::read_from on what was written (the roundtrip of the tests).
read_back ==
    /\ pc = "done"
    /\ result.kind = "Ok"
    /\ file2' = read_from(out)
    /\ pc' = "reread"
    /\ UNCHANGED <<file, pristine, auto_offsets, number_of_points_by_return,
                   bytes_written, vi, pi, fi, out, result>>

Next ==
    \/ \E header \in SampleHeaders : set_header(header)
    \/ \E point \in SamplePoints : add_point(point)
    \/ \E auto \in BOOLEAN : write_to(auto)
    \/ write_header
    \/ write_header_pad
    \/ write_vlr
    \/ write_point_pad
    \/ write_point_to
    \/ write_to_return
    \/ read_back

Spec == Init /\ [][Next]_vars

\* The packing of the sub-byte fields alone: write_point_to applied to one
\* point whose return-info fields or whose classification fields take every
\* value (write_to itself panics on a return_number above 5 before it
\* encodes a point).
BitPoints ==
    {[NewPoint EXCEPT !.return_number = rn, !.number_of_returns = nr,
                      !.scan_direction = sd, !.edge_of_flight_line = e] :
        rn \in 0 .. 7, nr \in 0 .. 7, sd \in 0 .. 1, e \in BOOLEAN}
    \cup
    {[NewPoint EXCEPT !.classification = cl, !.synthetic = sy,
                      !.key_point = kp, !.withheld = wh] :
        cl \in 0 .. 31, sy \in BOOLEAN, kp \in BOOLEAN, wh \in BOOLEAN}

InitBits ==
    /\ \E point \in BitPoints : file = [NewFile EXCEPT !.points = <<point>>]
    /\ pristine = FALSE
    /\ pc = "points"
    /\ auto_offsets = FALSE
    /\ number_of_points_by_return = <<0, 0, 0, 0, 0>>
    /\ bytes_written = 0
    /\ vi = 1
    /\ pi = 1
    /\ fi = 1
    /\ out = NoStream
    /\ result = NoResult
    /\ file2 = None

NextBits == write_point_to

SpecBits == InitBits /\ [][NextBits]_vars

\* ------------------------------------------------- what the claims speak of

Header == file.header
Format == file.header.point_data_format
NPoints == Len(file.points)

FieldKinds == {FieldOrder[i] : i \in 1 .. Len(FieldOrder)}
Colors == {"red", "green", "blue"}

RECURSIVE SumLen(_)
SumLen(chunks) == IF chunks = <<>> THEN 0 ELSE Head(chunks).len + SumLen(Tail(chunks))

IsFieldChunk(c) == c.kind \in FieldKinds
PointChunks(k) == SelectSeq(out.chunks, LAMBDA c : IsFieldChunk(c) /\ c.idx = k)
Preamble == SelectSeq(out.chunks, LAMBDA c : ~IsFieldChunk(c))
AllPointChunks == SelectSeq(out.chunks, IsFieldChunk)
KindsOf(chunks) == [i \in 1 .. Len(chunks) |-> chunks[i].kind]
HasChunk(k, kind) ==
    \E i \in 1 .. Len(out.chunks) : out.chunks[i].kind = kind /\ out.chunks[i].idx = k

\* write_to is past its loop over the points (it did not panic in it).
Derived == pc # "idle" /\ result.kind # "panic"
\* write_to returned Ok.
Written == pc \in {"done", "reread"} /\ result.kind = "Ok"
\* The encoding of point k ended: with Ok, with a PointFormat error.
Succeeded(k) == pi > k
FailedFormat(k) == pi = k /\ result.kind = "PointFormat"
Encoded(k) == Succeeded(k) \/ FailedFormat(k)

LacksColor(point) == \E c \in Colors : ~IsSome(point[c])
FirstMissingColor(point) ==
    IF ~IsSome(point.red) THEN "red"
    ELSE IF ~IsSome(point.green) THEN "green" ELSE "blue"

\* The fields a record of the format holds among the first `upto` of FieldOrder.
RecordKinds(format, point, upto) ==
    SelectSeq(SubSeq(FieldOrder, 1, upto),
              LAMBDA f : CASE f = "gps_time" -> has_time(format)
                           [] f \in Colors -> has_color(format)
                           [] f = "extra_bytes" -> IsSome(point.extra_bytes)
                           [] OTHER -> TRUE)

MinOf(S) == CHOOSE m \in S : \A e \in S : m <= e
MaxOf(S) == CHOOSE m \in S : \A e \in S : m >= e
Coordinates(axis) == {file.points[k][axis] : k \in 1 .. NPoints}

\* ------------------------------------------------------------------ claims

\* C1: a File obtained by read_from on a valid stream, written with
\* auto_offsets = false and read again from the bytes written, is read back
\* equal to the File that was written.
Claim_C1_RoundTrip ==
    (pristine /\ ~auto_offsets /\ pc = "reread") => file2 = Some(file)

\* C2, as stated: encoding a point fails with PointFormat(format, field) when
\* the format declares time and gps_time is absent, or declares color and a
\* color is absent; and encoding a point without gps_time against a format
\* that does not declare time succeeds and writes no gps_time.
Claim_C2_FormatGating ==
    \A k \in 1 .. NPoints :
        LET point == file.points[k] IN
        Encoded(k) =>
            /\ (has_time(Format) /\ ~IsSome(point.gps_time))
                   => (FailedFormat(k) /\ result = PointFormat(Format, "gps_time"))
            /\ (has_color(Format) /\ LacksColor(point)
                  /\ ~(has_time(Format) /\ ~IsSome(point.gps_time)))
                   => (FailedFormat(k)
                       /\ result = PointFormat(Format, FirstMissingColor(point)))
            /\ (~has_time(Format) /\ ~IsSome(point.gps_time))
                   => (Succeeded(k) /\ ~HasChunk(k, "gps_time"))

\* C2, amended: as C2, but the point without gps_time encoded against a
\* format without time succeeds only if the format does not ask for a color
\* the point lacks; in every case no gps_time is written for it.
Thm_C2_FormatGating ==
    \A k \in 1 .. NPoints :
        LET point == file.points[k] IN
        Encoded(k) =>
            /\ (has_time(Format) /\ ~IsSome(point.gps_time))
                   => (FailedFormat(k) /\ result = PointFormat(Format, "gps_time"))
            /\ (has_color(Format) /\ LacksColor(point)
                  /\ ~(has_time(Format) /\ ~IsSome(point.gps_time)))
                   => (FailedFormat(k)
                       /\ result = PointFormat(Format, FirstMissingColor(point)))
            /\ (~has_time(Format) /\ ~IsSome(point.gps_time))
                   => /\ ~HasChunk(k, "gps_time")
                      /\ ~(has_color(Format) /\ LacksColor(point)) => Succeeded(k)

\* The encoding of the second point failed on its missing gps_time, after
\* its nine leading fields were written.
Witness_C2 ==
    /\ result.kind = "PointFormat"
    /\ result.field = "gps_time"
    /\ pi = 2
    /\ HasChunk(2, "point_source_id")

Claim_C4_ReturnTally ==
    pc # "idle" =>
        /\ result.kind # "panic"
        /\ \A n \in 1 .. 5 :
               number_of_points_by_return[n] =
                   Cardinality({k \in 1 .. NPoints : file.points[k].return_number = n})

\* C5, as stated: after write_to on a File without points the minima of the
\* header are +infinity and its maxima -infinity; with points, each is the
\* minimum (maximum) of that coordinate over the points.
Claim_C5_BoundingBox ==
    Derived =>
        IF NPoints = 0
        THEN /\ Header.x_min = PosInfinity /\ Header.y_min = PosInfinity
             /\ Header.z_min = PosInfinity
             /\ Header.x_max = NegInfinity /\ Header.y_max = NegInfinity
             /\ Header.z_max = NegInfinity
        ELSE /\ Header.x_min = MinOf(Coordinates("x"))
             /\ Header.y_min = MinOf(Coordinates("y"))
             /\ Header.z_min = MinOf(Coordinates("z"))
             /\ Header.x_max = MaxOf(Coordinates("x"))
             /\ Header.y_max = MaxOf(Coordinates("y"))
             /\ Header.z_max = MaxOf(Coordinates("z"))

\* C5, amended: without points the minima are f64::MAX and the maxima
\* f64::MIN, the largest and the smallest finite f64; with points (of finite
\* coordinates) each is the minimum (maximum) of that coordinate.
Thm_C5_BoundingBox ==
    Derived =>
        IF NPoints = 0
        THEN /\ Header.x_min = F64_MAX /\ Header.y_min = F64_MAX
             /\ Header.z_min = F64_MAX
             /\ Header.x_max = F64_MIN /\ Header.y_max = F64_MIN
             /\ Header.z_max = F64_MIN
        ELSE /\ Header.x_min = MinOf(Coordinates("x"))
             /\ Header.y_min = MinOf(Coordinates("y"))
             /\ Header.z_min = MinOf(Coordinates("z"))
             /\ Header.x_max = MaxOf(Coordinates("x"))
             /\ Header.y_max = MaxOf(Coordinates("y"))
             /\ Header.z_max = MaxOf(Coordinates("z"))

\* A File without points was written.
Witness_C5 == Written /\ NPoints = 0 /\ Header.x_min = F64_MAX

\* C6: a successful write_to wrote the header padded with zeros to
\* header_size, the vlrs in their order, zeros up to offset_to_point_data,
\* and the points in their order; the first point starts at
\* offset_to_point_data = header_size + the lengths of the vlrs.
Thm_C6_Layout ==
    Written =>
        LET pre == Preamble
            pts == AllPointChunks
            nv == Len(file.vlrs)
            hdr == IF Len(pre) >= 2 /\ pre[2].kind = "zeros" THEN 2 ELSE 1
        IN  /\ out.chunks = pre \o pts
            /\ out.header = Some(Header)
            /\ Len(pre) >= hdr + nv
            /\ pre[1].kind = "header"
            /\ SumLen(SubSeq(pre, 1, hdr)) = Header.header_size
            /\ \A i \in 1 .. nv :
                   /\ pre[hdr + i].kind = "vlr"
                   /\ pre[hdr + i].idx = file.vlrs[i].id
                   /\ pre[hdr + i].len = file.vlrs[i].len
            /\ \A i \in hdr + nv + 1 .. Len(pre) :
                   i = hdr + nv + 1 /\ pre[i].kind = "zeros"
            /\ SumLen(pre) = Header.offset_to_point_data
            /\ Header.offset_to_point_data = Header.header_size + VlrsLen(file.vlrs)
            /\ \A i \in 1 .. Len(pts) - 1 : pts[i].idx <= pts[i + 1].idx
            /\ {pts[i].idx : i \in 1 .. Len(pts)} = 1 .. NPoints

\* A File with two vlrs and a point was written, with zeros after a short
\* header.
Witness_C6 ==
    /\ Written
    /\ Len(file.vlrs) = 2
    /\ NPoints >= 1
    /\ \E i \in 1 .. Len(out.chunks) : out.chunks[i].kind = "zeros"

\* C7: every point record write_to wrote is header.point_data_record_length
\* bytes long, also for a point that carries extra_bytes, so that point k
\* starts at offset_to_point_data + k * point_data_record_length.
Claim_C7_Stride ==
    Written =>
        \A k \in 1 .. NPoints :
            SumLen(PointChunks(k)) = Header.point_data_record_length

\* C8: the return-info byte decodes (bits 0-2, 3-5, 6, 7) to return_number,
\* number_of_returns, scan_direction and edge_of_flight_line of the point,
\* and the classification byte (bits 0-4, 5, 6, 7) to its classification,
\* synthetic, key_point and withheld.
Thm_C8_BitPacking ==
    \A i \in 1 .. Len(out.chunks) :
        LET c == out.chunks[i]
            point == file.points[c.idx]
        IN  /\ c.kind = "return_byte" =>
                /\ Len(c.bytes) = 1
                /\ DecodeReturnNumber(c.bytes[1]) = point.return_number
                /\ DecodeNumberOfReturns(c.bytes[1]) = point.number_of_returns
                /\ DecodeScanDirection(c.bytes[1]) = point.scan_direction
                /\ DecodeEdgeOfFlightLine(c.bytes[1]) = point.edge_of_flight_line
            /\ c.kind = "classification_byte" =>
                /\ Len(c.bytes) = 1
                /\ DecodeClassification(c.bytes[1]) = point.classification
                /\ DecodeSynthetic(c.bytes[1]) = point.synthetic
                /\ DecodeKeyPoint(c.bytes[1]) = point.key_point
                /\ DecodeWithheld(c.bytes[1]) = point.withheld

\* The return-info byte of a point with return_number 7, number_of_returns 5,
\* scan_direction 0 and the edge flag set was written.
Witness_C8 ==
    \E i \in 1 .. Len(out.chunks) :
        /\ out.chunks[i].kind = "return_byte"
        /\ out.chunks[i].bytes = <<175>>
        /\ file.points[1].return_number = 7
        /\ file.points[1].number_of_returns = 5

\* C9: on a PointFormat error at point k or an I/O error write_to returns at
\* once: nothing is written afterwards, nothing written before is taken
\* back, and on a PointFormat error the header, the vlrs, the points before k
\* and the leading fields of point k are in the destination, and nothing of a
\* later point.
Thm_C9_FailFast ==
    /\ [](result.kind = "Io" => pc = "done")
    /\ [](result.kind = "PointFormat" =>
            /\ pc = "done"
            /\ out.header = Some(Header)
            /\ SumLen(Preamble) = Header.offset_to_point_data
            /\ \A j \in 1 .. pi - 1 :
                   KindsOf(PointChunks(j))
                       = RecordKinds(Format, file.points[j], Len(FieldOrder))
            /\ KindsOf(PointChunks(pi)) = RecordKinds(Format, file.points[pi], fi - 1)
            /\ result.field = FieldOrder[fi]
            /\ \A i \in 1 .. Len(AllPointChunks) : AllPointChunks[i].idx <= pi)
    /\ [][/\ result.kind \in ErrorKinds => (out' = out /\ result' = result)
          /\ result'.kind \in ErrorKinds => out' = out
          /\ pc \notin {"idle", "header"} =>
                 /\ out'.header = out.header
                 /\ Len(out'.chunks) >= Len(out.chunks)
                 /\ SubSeq(out'.chunks, 1, Len(out.chunks)) = out.chunks]_vars

\* The second point failed on its missing green, after the first point and
\* its own red were written.
Witness_C9 ==
    /\ result = PointFormat(3, "green")
    /\ pi = 2
    /\ HasChunk(1, "blue")
    /\ HasChunk(2, "red")

\* C10: with auto_offsets each offset of the header becomes the midpoint of
\* the bounding box of its axis before a point is encoded; without, the
\* offsets stay as they were; the scale factors, the vlrs and the points are
\* the same in both.
Thm_C10_AutoOffset ==
    [][/\ (pc = "idle" /\ pc' # "idle") =>
             /\ file'.vlrs = file.vlrs
             /\ file'.points = file.points
             /\ file'.header.x_scale_factor = Header.x_scale_factor
             /\ file'.header.y_scale_factor = Header.y_scale_factor
             /\ file'.header.z_scale_factor = Header.z_scale_factor
             /\ (pc' = "header" /\ auto_offsets') =>
                    /\ 2 * file'.header.x_offset
                           = file'.header.x_min + file'.header.x_max
                    /\ 2 * file'.header.y_offset
                           = file'.header.y_min + file'.header.y_max
                    /\ 2 * file'.header.z_offset
                           = file'.header.z_min + file'.header.z_max
             /\ ~auto_offsets' =>
                    /\ file'.header.x_offset = Header.x_offset
                    /\ file'.header.y_offset = Header.y_offset
                    /\ file'.header.z_offset = Header.z_offset
       /\ pc # "idle" => file' = file]_vars

\* A point was encoded after auto_offsets moved the x offset to the midpoint
\* of two points.
Witness_C10 ==
    /\ auto_offsets
    /\ pc = "points"
    /\ pi = 2
    /\ NPoints = 2
    /\ Header.x_offset = 3
    /\ Header.x_min = 2

====
